---- MODULE Spec2Model ----
(***************************************************************************)
(* Model of the DOLFIN process-group layer: dolfin::MPI (rank and size     *)
(* queries, scatter, gather, global_maximum, send_recv, local_range,       *)
(* index_owner) in both of its builds (HAS_MPI and the serial fallback),   *)
(* and the LocalMeshData constructor that is meant to distribute a mesh.   *)
(*                                                                         *)
(* A job is nproc processes (ranks 0..nproc-1) running the same program.   *)
(* Every rank is either outside a call ("idle"), blocked inside an MPI     *)
(* call ("MPI_Scatter", "MPI_Allgather", "MPI_Allreduce", "MPI_Sendrecv"), *)
(* back from the call ("returned"), stopped by a dolfin error() exception  *)
(* ("error"), or dead ("aborted": a failed assert, a fatal MPI error, a    *)
(* trap).                                                                  *)
(* Arrays are sequences; element i of a C++ array is element i+1 here.     *)
(***************************************************************************)
EXTENDS Integers, Sequences, FiniteSets, TLC

\* Bounds of the model.
MaxP == 3       \* largest number of processes in a job
MaxN == 10      \* largest global size N handed to the index partitioner
MaxVal == 1     \* values carried by the collectives are 0..MaxVal
MaxVerts == 2   \* largest number of vertices of a mesh
MaxLen == 2     \* largest buffer size handed to send_recv

VARIABLES
  has_mpi,          \* build: HAS_MPI defined (MPI.cpp:16) or the serial fallback (MPI.cpp:293)
  ndebug,           \* build: NDEBUG defined, so assert() expands to nothing
  nproc,            \* number of processes of the job
  job,              \* "running", or "aborted" once any process has died
  mpi_initialized,  \* per rank: MPI_Init has been done in this process
  mpi_inits,        \* per rank: how many times MPI_Init has been called
  op,               \* the call the program is at: "none" or the function's name
  root,             \* sending_process of the scatter in progress
  pc,               \* per rank: position, see above
  arg,              \* per rank: the argument the call was entered with
  values,           \* per rank: the caller's std::vector<uint>& values
  ret,              \* per rank: the returned value(s), as a sequence
  err,              \* per rank: which error or abort stopped the call
  mpi_calls,        \* per rank: the MPI routines the current call has invoked
  mesh,             \* the Mesh handed to the LocalMeshData constructor
  mesh_data         \* per rank: the LocalMeshData object's members

vars == <<has_mpi, ndebug, nproc, job, mpi_initialized, mpi_inits, op, root, pc, arg,
          values, ret, err, mpi_calls, mesh, mesh_data>>

Ranks == 0 .. (nproc - 1)
Values == 0 .. MaxVal

----------------------------------------------------------------------------
\* Index partitioner: pure functions of (N, number of processes, rank).

\* local_range with the remainder left out of the offset of the later ranks.
local_range_no_offset(N, num_procs, rank) ==
  LET n == N \div num_procs
      r == N % num_procs
  IN  IF rank < r
        THEN <<rank * (n + 1), rank * (n + 1) + n + 1>>
        ELSE <<rank * n, rank * n + n>>

\* local_range with every rank given n indices, the remainder dropped.
local_range_even(N, num_procs, rank) ==
  LET n == N \div num_procs
      r == N % num_procs
  IN  IF rank < r
        THEN <<rank * (n + 1), rank * (n + 1) + n>>
        ELSE <<rank * n + r, rank * n + r + n>>

\* MPI.cpp:247-271, the body after num_processes() and process_number().
local_range(N, num_procs, rank) ==
  LET n == N \div num_procs
      r == N % num_procs
  IN  IF rank < r
        THEN <<rank * (n + 1), rank * (n + 1) + n + 1>>
        ELSE <<rank * n + r, rank * n + r + n>>

\* MPI.cpp:353-356, the serial build.
local_range_serial(N) == <<0, N>>

\* index_owner with every rank taken to own n indices.
index_owner_floor(index, N, num_procs) ==
  LET n == N \div num_procs
  IN  IF n = 0
        THEN [trap |-> TRUE, value |-> 0]
        ELSE [trap |-> FALSE, value |-> index \div n]

\* MPI.cpp:277-289, the body after the assert. trap: the unsigned division
\* by n = 0 of line 289 is reached (undefined behaviour).
index_owner(index, N, num_procs) ==
  LET n == N \div num_procs
      r == N % num_procs
  IN  IF index < r * (n + 1)
        THEN [trap |-> FALSE, value |-> index \div (n + 1)]
        ELSE IF n = 0
          THEN [trap |-> TRUE, value |-> 0]
          ELSE [trap |-> FALSE, value |-> r + (index - r * (n + 1)) \div n]

\* MPI.cpp:358-362, the serial build, after the assert.
index_owner_serial(index, N) == [trap |-> FALSE, value |-> 0]

----------------------------------------------------------------------------
\* SubSystemsManager::init_mpi(): MPI_Init unless already initialized.
init_mpi(initialized, r) == [initialized EXCEPT ![r] = TRUE]

\* The MPI_Init calls made so far, after init_mpi() in the process of rank r:
\* one more if the process was not initialized.
count_init(inits, initialized, r) ==
  IF initialized[r] THEN inits ELSE [inits EXCEPT ![r] = @ + 1]

NoRecord ==
  [num_global_vertices |-> 0, num_global_cells |-> 0, gdim |-> 0, tdim |-> 0,
   vertex_coordinates |-> <<>>, vertex_indices |-> <<>>, cell_vertices |-> <<>>]

NoMesh == [gdim |-> 0, tdim |-> 0, x |-> <<>>, cells |-> <<>>]

Init ==
  /\ has_mpi \in BOOLEAN
  /\ ndebug \in BOOLEAN
  /\ nproc \in 1 .. MaxP
  /\ (~has_mpi => nproc = 1)
  /\ job = "running"
  /\ mpi_initialized = [r \in Ranks |-> FALSE]
  /\ mpi_inits = [r \in Ranks |-> 0]
  /\ op = "none"
  /\ root = 0
  /\ pc = [r \in Ranks |-> "idle"]
  /\ arg = [r \in Ranks |-> <<>>]
  /\ values = [r \in Ranks |-> <<>>]
  /\ ret = [r \in Ranks |-> <<>>]
  /\ err = [r \in Ranks |-> "none"]
  /\ mpi_calls = [r \in Ranks |-> {}]
  /\ mesh = NoMesh
  /\ mesh_data = [r \in Ranks |-> NoRecord]

\* A rank may enter function f: it is idle, and the program is at f (or at
\* no call yet, and this rank is the first to reach f).
MayCall(r, f) ==
  /\ job = "running"
  /\ pc[r] = "idle"
  /\ op \in {"none", f}

\* dolfin::MPI::process_number(), MPI.cpp:38-42 and 296-299.
process_number(r) ==
  /\ MayCall(r, "process_number")
  /\ op' = "process_number"
  /\ mpi_initialized' = IF has_mpi THEN init_mpi(mpi_initialized, r) ELSE mpi_initialized
  /\ mpi_inits' =
       IF has_mpi THEN count_init(mpi_inits, mpi_initialized, r) ELSE mpi_inits
  /\ mpi_calls' = [mpi_calls EXCEPT ![r] =
                     IF has_mpi
                       THEN (IF mpi_initialized[r] THEN {} ELSE {"MPI_Init"}) \cup {"Get_rank"}
                       ELSE {}]
  /\ ret' = [ret EXCEPT ![r] = <<r>>]
  /\ pc' = [pc EXCEPT ![r] = "returned"]
  /\ UNCHANGED <<has_mpi, ndebug, nproc, job, root, arg, values, err, mesh, mesh_data>>

\* dolfin::MPI::num_processes(), MPI.cpp:44-48 and 301-304.
num_processes(r) ==
  /\ MayCall(r, "num_processes")
  /\ op' = "num_processes"
  /\ mpi_initialized' = IF has_mpi THEN init_mpi(mpi_initialized, r) ELSE mpi_initialized
  /\ mpi_inits' =
       IF has_mpi THEN count_init(mpi_inits, mpi_initialized, r) ELSE mpi_inits
  /\ mpi_calls' = [mpi_calls EXCEPT ![r] =
                     IF has_mpi
                       THEN (IF mpi_initialized[r] THEN {} ELSE {"MPI_Init"}) \cup {"Get_size"}
                       ELSE {}]
  /\ ret' = [ret EXCEPT ![r] = <<nproc>>]
  /\ pc' = [pc EXCEPT ![r] = "returned"]
  /\ UNCHANGED <<has_mpi, ndebug, nproc, job, root, arg, values, err, mesh, mesh_data>>

\* dolfin::MPI::local_range(N), MPI.cpp:247-271 and 353-356.
call_local_range(r, N) ==
  /\ MayCall(r, "local_range")
  /\ \A s \in Ranks : pc[s] = "returned" => arg[s] = <<N>>   \* same program, same N
  /\ op' = "local_range"
  /\ arg' = [arg EXCEPT ![r] = <<N>>]
  /\ mpi_initialized' = IF has_mpi THEN init_mpi(mpi_initialized, r) ELSE mpi_initialized
  /\ mpi_inits' =
       IF has_mpi THEN count_init(mpi_inits, mpi_initialized, r) ELSE mpi_inits
  /\ mpi_calls' = [mpi_calls EXCEPT ![r] =
                     IF has_mpi
                       THEN (IF mpi_initialized[r] THEN {} ELSE {"MPI_Init"})
                            \cup {"Get_size", "Get_rank"}
                       ELSE {}]
  /\ ret' = [ret EXCEPT ![r] =
               IF has_mpi THEN local_range(N, nproc, r) ELSE local_range_serial(N)]
  /\ pc' = [pc EXCEPT ![r] = "returned"]
  /\ UNCHANGED <<has_mpi, ndebug, nproc, job, root, values, err, mesh, mesh_data>>

\* dolfin::MPI::index_owner(index, N), MPI.cpp:273-290 and 358-362.
\* With assertions compiled in, index >= N aborts the process at line 275
\* (360). With NDEBUG the body runs; a division by zero either traps or
\* yields some value.
call_index_owner(r, index, N) ==
  /\ MayCall(r, "index_owner")
  /\ op = "none"                     \* a local query: one caller is followed at a time
  /\ op' = "index_owner"
  /\ arg' = [arg EXCEPT ![r] = <<index, N>>]
  /\ IF ~ndebug /\ ~(index < N)
       THEN /\ pc' = [pc EXCEPT ![r] = "aborted"]
            /\ err' = [err EXCEPT ![r] = "assert"]
            /\ job' = "aborted"
            /\ UNCHANGED <<mpi_initialized, mpi_inits, mpi_calls, ret>>
       ELSE LET o == IF has_mpi THEN index_owner(index, N, nproc)
                                ELSE index_owner_serial(index, N)
            IN  /\ mpi_initialized' =
                     IF has_mpi THEN init_mpi(mpi_initialized, r) ELSE mpi_initialized
                /\ mpi_inits' =
                     IF has_mpi THEN count_init(mpi_inits, mpi_initialized, r) ELSE mpi_inits
                /\ mpi_calls' = [mpi_calls EXCEPT ![r] =
                     IF has_mpi
                       THEN (IF mpi_initialized[r] THEN {} ELSE {"MPI_Init"}) \cup {"Get_size"}
                       ELSE {}]
                /\ IF o.trap
                     THEN \/ /\ pc' = [pc EXCEPT ![r] = "aborted"]
                             /\ err' = [err EXCEPT ![r] = "SIGFPE"]
                             /\ job' = "aborted"
                             /\ UNCHANGED ret
                          \/ \E v \in 0 .. nproc :
                               /\ pc' = [pc EXCEPT ![r] = "returned"]
                               /\ ret' = [ret EXCEPT ![r] = <<v>>]
                               /\ UNCHANGED <<err, job>>
                     ELSE /\ pc' = [pc EXCEPT ![r] = "returned"]
                          /\ ret' = [ret EXCEPT ![r] = <<o.value>>]
                          /\ UNCHANGED <<err, job>>
  /\ UNCHANGED <<has_mpi, ndebug, nproc, root, values, mesh, mesh_data>>

----------------------------------------------------------------------------
\* Collective operations.

\* The MPI routines a call has gone through once its MPICommunicator exists.
WithComm(calls) == calls \cup {"MPI_Comm_dup", "MPI_Comm_free"}

\* MPI_Scatter as called at MPI.cpp:95-102 and 110-117: what the process of
\* rank `rank` can get when the root sends `sendcount` elements per process
\* from sendbuf and the process receives into a buffer of `recvcount`. The
\* root's block for a rank starts at rank*sendcount; elements read past the
\* end of sendbuf are arbitrary. Sending more than is received is a
\* truncation: a fatal MPI error, or the block cut to recvcount elements.
MPI_Scatter(sendbuf, sendcount, recvcount, rank) ==
  LET block(g) == [k \in 1 .. recvcount |->
                     IF rank * sendcount + k <= Len(sendbuf)
                       THEN sendbuf[rank * sendcount + k]
                       ELSE g]
  IN  (IF sendcount > recvcount THEN {[error |-> TRUE, data |-> <<>>]} ELSE {})
      \cup {[error |-> FALSE, data |-> block(g)] : g \in Values}

\* The sendcount argument of the root's MPI_Scatter, MPI.cpp:96.
scatter_sendcount(v) == Len(v)

\* Arrays a sending rank may pass, of the right length and not: neighbouring
\* slots hold different values, so that a slot delivered to the wrong rank shows.
ScatterInput(first, L) == [k \in 1 .. L |-> (first + k - 1) % (MaxVal + 1)]
ScatterInputs == {ScatterInput(first, L) : first \in Values, L \in (nproc - 1) .. (nproc + 1)}
\* Arrays the other ranks may pass (they are not read).
NonSenderInputs == {<<>>}

\* dolfin::MPI::scatter(values, sending_process), MPI.cpp:74-118: up to the
\* point where the rank is inside MPI_Scatter, or has failed. The
\* communicator is duplicated (line 80) before process_number() (line 83)
\* gets the chance to initialize MPI. Only the HAS_MPI build defines scatter.
call_scatter(r, v, s) ==
  /\ has_mpi
  /\ MayCall(r, "scatter")
  /\ (op = "scatter" => root = s)
  /\ v \in (IF r = s THEN ScatterInputs ELSE NonSenderInputs)
  /\ op' = "scatter"
  /\ root' = s
  /\ arg' = [arg EXCEPT ![r] = v]
  /\ values' = [values EXCEPT ![r] = v]
  /\ IF ~mpi_initialized[r]
       THEN /\ pc' = [pc EXCEPT ![r] = "aborted"]
            /\ err' = [err EXCEPT ![r] = "MPI_Comm_dup before MPI_Init"]
            /\ job' = "aborted"
            /\ mpi_calls' = [mpi_calls EXCEPT ![r] = {"MPI_Comm_dup"}]
       ELSE IF r = s /\ Len(v) # nproc
         THEN /\ pc' = [pc EXCEPT ![r] = "error"]
              /\ err' = [err EXCEPT ![r] = "SizeMismatch"]
              /\ mpi_calls' = [mpi_calls EXCEPT ![r] = WithComm({"Get_rank", "Get_size"})]
              /\ UNCHANGED job
         ELSE /\ pc' = [pc EXCEPT ![r] = "MPI_Scatter"]
              /\ mpi_calls' = [mpi_calls EXCEPT ![r] =
                   {"MPI_Comm_dup", "Get_rank", "MPI_Scatter"}
                   \cup (IF r = s THEN {"Get_size"} ELSE {})]
              /\ UNCHANGED <<err, job>>
  /\ UNCHANGED <<has_mpi, ndebug, nproc, mpi_initialized, mpi_inits, ret, mesh, mesh_data>>

\* MPI_Scatter completes on rank r once the root is in it (or through it),
\* then MPI.cpp:120-122: values becomes the one received element.
complete_scatter(r) ==
  /\ job = "running"
  /\ op = "scatter"
  /\ pc[r] = "MPI_Scatter"
  /\ pc[root] \in {"MPI_Scatter", "returned"}
  /\ \E got \in MPI_Scatter(arg[root], scatter_sendcount(arg[root]), 1, r) :
       IF got.error
         THEN /\ pc' = [pc EXCEPT ![r] = "aborted"]
              /\ err' = [err EXCEPT ![r] = "MPI_ERR_TRUNCATE"]
              /\ job' = "aborted"
              /\ UNCHANGED <<values, mpi_calls>>
         ELSE /\ values' = [values EXCEPT ![r] = <<got.data[1]>>]
              /\ pc' = [pc EXCEPT ![r] = "returned"]
              /\ mpi_calls' = [mpi_calls EXCEPT ![r] = WithComm(@)]
              /\ UNCHANGED <<err, job>>
  /\ UNCHANGED <<has_mpi, ndebug, nproc, mpi_initialized, mpi_inits, op, root, arg, ret, mesh, mesh_data>>

\* The array rank r passes to gather: `len` slots, its own holding `own`.
GatherInput(r, own, len) == [k \in 1 .. len |-> IF k = r + 1 THEN own ELSE MaxVal - own]

\* dolfin::MPI::gather(values), MPI.cpp:173-186 and 328-331: up to the point
\* where the rank is inside MPI_Allgather. The assert calls num_processes()
\* and line 178 calls process_number(), so MPI is initialized before the
\* communicator is duplicated.
call_gather(r, own, len) ==
  /\ MayCall(r, "gather")
  /\ len \in {nproc, nproc + 1}
  /\ \A s \in Ranks : pc[s] # "idle" => Len(arg[s]) = len    \* same program, same array size
  /\ op' = "gather"
  /\ arg' = [arg EXCEPT ![r] = GatherInput(r, own, len)]
  /\ values' = [values EXCEPT ![r] = GatherInput(r, own, len)]
  /\ IF ~has_mpi
       THEN /\ pc' = [pc EXCEPT ![r] = "error"]
            /\ err' = [err EXCEPT ![r] = "MPI::gather() requires MPI."]
            /\ UNCHANGED <<job, mpi_initialized, mpi_inits, mpi_calls>>
       ELSE IF ~ndebug /\ len # nproc
         THEN /\ pc' = [pc EXCEPT ![r] = "aborted"]
              /\ err' = [err EXCEPT ![r] = "assert"]
              /\ job' = "aborted"
              /\ mpi_initialized' = init_mpi(mpi_initialized, r)
              /\ mpi_inits' = count_init(mpi_inits, mpi_initialized, r)
              /\ mpi_calls' = [mpi_calls EXCEPT ![r] =
                   (IF mpi_initialized[r] THEN {} ELSE {"MPI_Init"}) \cup {"Get_size"}]
         ELSE /\ pc' = [pc EXCEPT ![r] = "MPI_Allgather"]
              /\ mpi_initialized' = init_mpi(mpi_initialized, r)
              /\ mpi_inits' = count_init(mpi_inits, mpi_initialized, r)
              /\ mpi_calls' = [mpi_calls EXCEPT ![r] =
                   (IF mpi_initialized[r] THEN {} ELSE {"MPI_Init"})
                   \cup (IF ndebug THEN {} ELSE {"Get_size"})
                   \cup {"Get_rank", "MPI_Comm_dup", "MPI_Allgather"}]
              /\ UNCHANGED <<err, job>>
  /\ UNCHANGED <<has_mpi, ndebug, nproc, root, ret, mesh, mesh_data>>

\* MPI_Allgather fed the first slot of every rank's array instead of its own.
MPI_Allgather_first_slot(sent) == [k \in 1 .. nproc |-> sent[k - 1][1]]

\* MPI_Allgather at MPI.cpp:185-186: the send_value of every rank (line 178),
\* in rank order.
MPI_Allgather(sent) == [k \in 1 .. nproc |-> sent[k - 1][k]]

\* The copy back, MPI.cpp:189-190: values[i] = received_values[i] for every
\* slot of values; received_values holds nproc gathered elements and, past
\* them, whatever the allocation held (g).
gather_copy(old, received, g) ==
  [i \in 1 .. Len(old) |-> IF i <= Len(received) THEN received[i] ELSE g]

\* MPI_Allgather completes on rank r once every rank has contributed.
complete_gather(r) ==
  /\ job = "running"
  /\ op = "gather"
  /\ pc[r] = "MPI_Allgather"
  /\ \A s \in Ranks : pc[s] \in {"MPI_Allgather", "returned"}
  /\ \E g \in (IF Len(arg[r]) > nproc THEN Values ELSE {0}) :
       values' = [values EXCEPT ![r] = gather_copy(values[r], MPI_Allgather(arg), g)]
  /\ pc' = [pc EXCEPT ![r] = "returned"]
  /\ mpi_calls' = [mpi_calls EXCEPT ![r] = WithComm(@)]
  /\ UNCHANGED <<has_mpi, ndebug, nproc, job, mpi_initialized, mpi_inits, op, root, arg, ret, err,
                 mesh, mesh_data>>

\* dolfin::MPI::global_maximum(size), MPI.cpp:196-201 and 333-337: up to the
\* point where the rank is inside MPI_Allreduce. Nothing initializes MPI
\* before the communicator is duplicated (line 200).
call_global_maximum(r, size) ==
  /\ MayCall(r, "global_maximum")
  /\ op' = "global_maximum"
  /\ arg' = [arg EXCEPT ![r] = <<size>>]
  /\ IF ~has_mpi
       THEN /\ pc' = [pc EXCEPT ![r] = "error"]
            /\ err' = [err EXCEPT ![r] = "MPI::global_maximum() requires MPI."]
            /\ UNCHANGED <<job, mpi_calls>>
       ELSE IF ~mpi_initialized[r]
         THEN /\ pc' = [pc EXCEPT ![r] = "aborted"]
              /\ err' = [err EXCEPT ![r] = "MPI_Comm_dup before MPI_Init"]
              /\ job' = "aborted"
              /\ mpi_calls' = [mpi_calls EXCEPT ![r] = {"MPI_Comm_dup"}]
         ELSE /\ pc' = [pc EXCEPT ![r] = "MPI_Allreduce"]
              /\ mpi_calls' = [mpi_calls EXCEPT ![r] = {"MPI_Comm_dup", "MPI_Allreduce"}]
              /\ UNCHANGED <<err, job>>
  /\ UNCHANGED <<has_mpi, ndebug, nproc, mpi_initialized, mpi_inits, root, values, ret, mesh, mesh_data>>

\* MPI_Allreduce with MPI_MIN.
MPI_Allreduce_MIN(sent) ==
  CHOOSE m \in {sent[s][1] : s \in Ranks} : \A s \in Ranks : m <= sent[s][1]

\* MPI_Allreduce with MPI_MAX at MPI.cpp:201: the largest contribution.
MPI_Allreduce_MAX(sent) ==
  CHOOSE m \in {sent[s][1] : s \in Ranks} : \A s \in Ranks : sent[s][1] <= m

\* MPI_Allreduce completes on rank r once every rank has contributed; line 202.
complete_global_maximum(r) ==
  /\ job = "running"
  /\ op = "global_maximum"
  /\ pc[r] = "MPI_Allreduce"
  /\ \A s \in Ranks : pc[s] \in {"MPI_Allreduce", "returned"}
  /\ ret' = [ret EXCEPT ![r] = <<MPI_Allreduce_MAX(arg)>>]
  /\ pc' = [pc EXCEPT ![r] = "returned"]
  /\ mpi_calls' = [mpi_calls EXCEPT ![r] = WithComm(@)]
  /\ UNCHANGED <<has_mpi, ndebug, nproc, job, mpi_initialized, mpi_inits, op, root, arg, values, err,
                 mesh, mesh_data>>

\* MPI_Sendrecv reporting the capacity of the receive buffer as the count.
MPI_Sendrecv_capacity(incoming, recv_size) ==
  [error |-> incoming > recv_size, count |-> recv_size]

\* MPI_Sendrecv and MPI_Get_count at MPI.cpp:214-220 (235-241 for double):
\* the receive of a message of `incoming` elements into a buffer of
\* recv_size. A longer message is a truncation error, fatal under the
\* default error handler; otherwise the status counts the elements that came.
MPI_Sendrecv(incoming, recv_size) ==
  [error |-> incoming > recv_size, count |-> incoming]

\* dolfin::MPI::send_recv(send_buffer, send_size, dest, recv_buffer,
\* recv_size, source), MPI.cpp:205-216, 226-237 and 339-351: up to the point
\* where the rank is inside MPI_Sendrecv. Nothing initializes MPI before the
\* communicator is duplicated (lines 211, 232). The ranks of one exchange
\* agree on the receive capacity and shift along a ring by the same amount.
call_send_recv(r, send_size, dest, recv_size, source) ==
  /\ MayCall(r, "send_recv")
  /\ \A s \in Ranks : pc[s] # "idle" =>
       /\ arg[s][3] = recv_size
       /\ (arg[s][2] + nproc - s) % nproc = (dest + nproc - r) % nproc
  /\ op' = "send_recv"
  /\ arg' = [arg EXCEPT ![r] = <<send_size, dest, recv_size, source>>]
  /\ IF ~has_mpi
       THEN /\ pc' = [pc EXCEPT ![r] = "error"]
            /\ err' = [err EXCEPT ![r] = "MPI::send_recv() requires MPI."]
            /\ UNCHANGED <<job, mpi_calls>>
       ELSE IF ~mpi_initialized[r]
         THEN /\ pc' = [pc EXCEPT ![r] = "aborted"]
              /\ err' = [err EXCEPT ![r] = "MPI_Comm_dup before MPI_Init"]
              /\ job' = "aborted"
              /\ mpi_calls' = [mpi_calls EXCEPT ![r] = {"MPI_Comm_dup"}]
         ELSE /\ pc' = [pc EXCEPT ![r] = "MPI_Sendrecv"]
              /\ mpi_calls' = [mpi_calls EXCEPT ![r] = {"MPI_Comm_dup", "MPI_Sendrecv"}]
              /\ UNCHANGED <<err, job>>
  /\ UNCHANGED <<has_mpi, ndebug, nproc, mpi_initialized, mpi_inits, root, values, ret, mesh, mesh_data>>

\* MPI_Sendrecv completes on rank r once its source has sent to r; then
\* MPI.cpp:218-223 (239-244): the count of the status is returned.
complete_send_recv(r) ==
  /\ job = "running"
  /\ op = "send_recv"
  /\ pc[r] = "MPI_Sendrecv"
  /\ LET source == arg[r][4] IN
       /\ pc[source] \in {"MPI_Sendrecv", "returned"}
       /\ arg[source][2] = r
       /\ LET got == MPI_Sendrecv(arg[source][1], arg[r][3]) IN
            IF got.error
              THEN /\ pc' = [pc EXCEPT ![r] = "aborted"]
                   /\ err' = [err EXCEPT ![r] = "MPI_ERR_TRUNCATE"]
                   /\ job' = "aborted"
                   /\ UNCHANGED <<ret, mpi_calls>>
              ELSE /\ ret' = [ret EXCEPT ![r] = <<got.count>>]
                   /\ pc' = [pc EXCEPT ![r] = "returned"]
                   /\ mpi_calls' = [mpi_calls EXCEPT ![r] = WithComm(@ \cup {"MPI_Get_count"})]
                   /\ UNCHANGED <<err, job>>
  /\ UNCHANGED <<has_mpi, ndebug, nproc, mpi_initialized, mpi_inits, op, root, arg, values, mesh, mesh_data>>

----------------------------------------------------------------------------
\* Mesh distribution driver.

\* The serial meshes handed to the constructor: an interval mesh of nv
\* vertices with coordinates x and cells <<v, v+1>> (global vertex indices).
IntervalMesh(first, nv) ==
  [gdim |-> 1, tdim |-> 1,
   x |-> [v \in 1 .. nv |-> <<(first + v - 1) % (MaxVal + 1)>>],
   cells |-> [c \in 1 .. (nv - 1) |-> <<c - 1, c>>]]
Meshes == {IntervalMesh(first, nv) : first \in Values, nv \in 1 .. MaxVerts}

\* LocalMeshData::clear(), LocalMeshData.cpp:50-59.
clear(d) ==
  [d EXCEPT !.vertex_coordinates = <<>>, !.vertex_indices = <<>>, !.cell_vertices = <<>>,
            !.num_global_vertices = 0, !.num_global_cells = 0, !.gdim = 0, !.tdim = 0]

\* LocalMeshData::extract_mesh_data(mesh), LocalMeshData.cpp:61-98.
extract_mesh_data(d, m) ==
  [clear(d) EXCEPT
     !.gdim = m.gdim,
     !.tdim = m.tdim,
     !.num_global_vertices = Len(m.x),
     !.num_global_cells = Len(m.cells),
     !.vertex_coordinates = [v \in 1 .. Len(m.x) |-> [i \in 1 .. m.gdim |-> m.x[v][i]]],
     !.vertex_indices = [v \in 1 .. Len(m.x) |-> v - 1],
     !.cell_vertices = [c \in 1 .. Len(m.cells) |->
                          [i \in 1 .. Len(m.cells[c]) |-> m.cells[c][i]]]]

\* LocalMeshData::broadcast_mesh_data(), LocalMeshData.cpp:100-106: empty.
broadcast_mesh_data(d) == d

\* LocalMeshData::receive_mesh_data(), LocalMeshData.cpp:108-112: empty.
receive_mesh_data(d) == d

\* dolfin::MPI::is_broadcaster(), MPI.cpp:50-54 (serial build: 306-309).
is_broadcaster(r) == has_mpi /\ nproc > 1 /\ r = 0

\* dolfin::MPI::is_receiver(), MPI.cpp:56-60 (serial build: 311-314).
is_receiver(r) == has_mpi /\ nproc > 1 /\ r > 0

\* dolfin::error() does not return: it throws.
error_throws == TRUE

\* LocalMeshData.cpp:33-42: what the constructor body makes of the members.
distribute_mesh_data(r, d, m) ==
  IF is_broadcaster(r)
    THEN broadcast_mesh_data(extract_mesh_data(d, m))
    ELSE receive_mesh_data(d)

\* LocalMeshData::LocalMeshData(const Mesh&), LocalMeshData.cpp:26-43. The
\* members are zero-initialized, then line 30 raises an error.
LocalMeshData(r, m) ==
  /\ MayCall(r, "LocalMeshData")
  /\ (op = "LocalMeshData" => mesh = m)
  /\ op' = "LocalMeshData"
  /\ mesh' = m
  /\ IF error_throws
       THEN /\ mesh_data' = [mesh_data EXCEPT ![r] = NoRecord]
            /\ pc' = [pc EXCEPT ![r] = "error"]
            /\ err' = [err EXCEPT ![r] = "This should not be called"]
            /\ UNCHANGED <<mpi_initialized, mpi_inits, mpi_calls>>
       ELSE /\ mesh_data' = [mesh_data EXCEPT ![r] = distribute_mesh_data(r, NoRecord, m)]
            /\ pc' = [pc EXCEPT ![r] = "returned"]
            /\ mpi_initialized' =
                 IF has_mpi THEN init_mpi(mpi_initialized, r) ELSE mpi_initialized
            /\ mpi_inits' =
                 IF has_mpi THEN count_init(mpi_inits, mpi_initialized, r) ELSE mpi_inits
            /\ mpi_calls' = [mpi_calls EXCEPT ![r] =
                 IF has_mpi
                   THEN (IF mpi_initialized[r] THEN {} ELSE {"MPI_Init"}) \cup {"Get_size"}
                        \cup (IF nproc > 1 THEN {"Get_rank"} ELSE {})
                   ELSE {}]
            /\ UNCHANGED err
  /\ UNCHANGED <<has_mpi, ndebug, nproc, job, root, arg, values, ret>>

\* The program moves on from a call every rank is through with. A collective
\* has to have returned on every rank; a local function on those that called it.
Collective == {"scatter", "gather", "global_maximum"}
\* The calls that wait for other ranks.
Blocking == Collective \cup {"send_recv"}

proceed ==
  /\ job = "running"
  /\ op # "none"
  /\ \A r \in Ranks : pc[r] \in {"idle", "returned"}
  /\ \E r \in Ranks : pc[r] = "returned"
  /\ op \in Blocking => \A r \in Ranks : pc[r] = "returned"
  /\ op' = "none"
  /\ root' = 0
  /\ pc' = [r \in Ranks |-> "idle"]
  /\ arg' = [r \in Ranks |-> <<>>]
  /\ values' = [r \in Ranks |-> <<>>]
  /\ ret' = [r \in Ranks |-> <<>>]
  /\ mpi_calls' = [r \in Ranks |-> {}]
  /\ mesh' = NoMesh
  /\ mesh_data' = [r \in Ranks |-> NoRecord]
  /\ UNCHANGED <<has_mpi, ndebug, nproc, job, mpi_initialized, mpi_inits, err>>

Next ==
  \/ \E r \in Ranks : process_number(r)
  \/ \E r \in Ranks : num_processes(r)
  \/ \E r \in Ranks : MayCall(r, "local_range") /\ \E N \in 0 .. MaxN : call_local_range(r, N)
  \/ \E r \in Ranks : MayCall(r, "index_owner") /\ op = "none"
       /\ \E index \in 0 .. (MaxN + 1), N \in 0 .. MaxN : call_index_owner(r, index, N)
  \/ \E r \in Ranks : MayCall(r, "scatter")
       /\ \E s \in Ranks : \E v \in (IF r = s THEN ScatterInputs ELSE NonSenderInputs) :
            call_scatter(r, v, s)
  \/ \E r \in Ranks : complete_scatter(r)
  \/ \E r \in Ranks : MayCall(r, "gather")
       /\ \E own \in Values, len \in {nproc, nproc + 1} : call_gather(r, own, len)
  \/ \E r \in Ranks : complete_gather(r)
  \/ \E r \in Ranks : MayCall(r, "global_maximum")
       /\ \E size \in Values : call_global_maximum(r, size)
  \/ \E r \in Ranks : complete_global_maximum(r)
  \/ \E r \in Ranks : MayCall(r, "send_recv")
       /\ \E send_size \in 0 .. MaxLen, recv_size \in 0 .. MaxLen, shift \in Ranks :
            call_send_recv(r, send_size, (r + shift) % nproc, recv_size,
                           (r + nproc - shift) % nproc)
  \/ \E r \in Ranks : complete_send_recv(r)
  \/ \E r \in Ranks : MayCall(r, "LocalMeshData") /\ \E m \in Meshes : LocalMeshData(r, m)
  \/ proceed

Spec == Init /\ [][Next]_vars

----------------------------------------------------------------------------
\* Properties.

InRange(i, range) == range[1] <= i /\ i < range[2]
Size(range) == range[2] - range[1]
Returned(r) == pc[r] = "returned"
AllReturned == \A r \in Ranks : Returned(r)
\* local_range as the build at hand computes it for rank r.
LocalRangeOf(N, r) == IF has_mpi THEN local_range(N, nproc, r) ELSE local_range_serial(N)

RECURSIVE SumSizes(_)
SumSizes(k) == IF k < 0 THEN 0 ELSE Size(ret[k]) + SumSizes(k - 1)

\* C1: the ranges local_range(N) returns on ranks 0..P-1 tile [0,N): rank 0
\* starts at 0, each rank starts where the previous one ends, the last rank
\* ends at N, every index of [0,N) lies in exactly one range, the sizes sum
\* to N, and for N = 0 every range is [0,0).
C1_LocalRangeTiles ==
  op = "local_range" =>
    /\ \A r \in Ranks : Returned(r) =>
         LET N == arg[r][1] IN
         /\ ret[r][1] <= ret[r][2]
         /\ (r = 0 => ret[r][1] = 0)
         /\ (r = nproc - 1 => ret[r][2] = N)
         /\ (r > 0 /\ Returned(r - 1) => ret[r][1] = ret[r - 1][2])
         /\ (N = 0 => ret[r] = <<0, 0>>)
    /\ AllReturned =>
         LET N == arg[0][1] IN
         /\ SumSizes(nproc - 1) = N
         /\ \A i \in 0 .. (N - 1) :
              Cardinality({r \in Ranks : InRange(i, ret[r])}) = 1

C1_Witness ==
  /\ op = "local_range" /\ nproc = 3 /\ AllReturned
  /\ arg[0] = <<10>> /\ ret[0] = <<0, 4>> /\ ret[1] = <<4, 7>> /\ ret[2] = <<7, 10>>

\* C2: for an index i in [0,N), N >= 1, index_owner(i, N) returns a rank, and
\* that rank is the one and only rank whose local_range(N) contains i; for
\* N = 10 and P = 3 the owner of 6 is 1 and the owner of 7 is 2.
C2_IndexOwnerInvertsLocalRange ==
  op = "index_owner" =>
    \A r \in Ranks : (pc[r] # "idle" /\ arg[r][1] < arg[r][2]) =>
      LET index == arg[r][1]
          N == arg[r][2]
      IN  /\ Returned(r)
          /\ ret[r][1] \in Ranks
          /\ \A s \in Ranks : InRange(index, LocalRangeOf(N, s)) <=> s = ret[r][1]
          /\ (N = 10 /\ nproc = 3 /\ index = 6 => ret[r] = <<1>>)
          /\ (N = 10 /\ nproc = 3 /\ index = 7 => ret[r] = <<2>>)

C2_Witness ==
  /\ op = "index_owner" /\ nproc = 3
  /\ \E r \in Ranks : Returned(r) /\ arg[r] = <<7, 10>> /\ ret[r] = <<2>>

\* C3: the sizes of the ranges local_range(N) returns differ by at most 1
\* between ranks: the first N mod P ranks own ceil(N/P) indices, the others
\* floor(N/P).
C3_RangeSizesBalanced ==
  op = "local_range" =>
    \A r \in Ranks : Returned(r) =>
      LET N == arg[r][1] IN
      /\ Size(ret[r]) = IF r < N % nproc THEN (N + nproc - 1) \div nproc ELSE N \div nproc
      /\ \A s \in Ranks : Returned(s) =>
           /\ Size(ret[r]) - Size(ret[s]) <= 1
           /\ Size(ret[s]) - Size(ret[r]) <= 1

C3_Witness ==
  /\ op = "local_range" /\ nproc = 3 /\ AllReturned /\ arg[0] = <<8>>
  /\ Size(ret[0]) = 3 /\ Size(ret[1]) = 3 /\ Size(ret[2]) = 2

\* C4: index_owner(i, N) with i >= N (any call with N = 0 included) fails
\* with the out-of-range failure and returns no rank: it neither returns a
\* value nor divides by zero.
C4_IndexOwnerOutOfRange ==
  op = "index_owner" =>
    \A r \in Ranks : (pc[r] # "idle" /\ arg[r][1] >= arg[r][2]) =>
      pc[r] = "aborted" /\ err[r] = "assert"

\* C5: when the sending rank supplies an array of length P to scatter (in
\* processes whose MPI is initialized), the scatter kills no rank, and every
\* rank r that returns holds exactly <<element r of the sender's array>>.
C5_ScatterDelivers ==
  (op = "scatter" /\ pc[root] # "idle" /\ Len(arg[root]) = nproc
     /\ \A r \in Ranks : err[r] # "MPI_Comm_dup before MPI_Init") =>
    \A r \in Ranks :
      /\ err[r] # "MPI_ERR_TRUNCATE"
      /\ Returned(r) => values[r] = <<arg[root][r + 1]>>

\* C6: scatter called on the sending rank with an array whose length is not
\* P fails with the size-mismatch error before anything is sent: no rank
\* returns with a value and the sender's array is as it was.
C6_SizeMismatchBeforeSend ==
  (op = "scatter" /\ pc[root] # "idle" /\ Len(arg[root]) # nproc) =>
    /\ pc[root] = "error"
    /\ err[root] = "SizeMismatch"
    /\ values[root] = arg[root]
    /\ \A r \in Ranks : ~Returned(r)

\* C7: when every rank calls gather with an array of length P holding its
\* contribution in its own slot, every rank that returns holds an array of
\* length P whose slot k is rank k's contribution, so all ranks hold the
\* same rank-ordered array.
C7_GatherRankOrdered ==
  op = "gather" =>
    \A r \in Ranks : (Returned(r) /\ Len(arg[r]) = nproc) =>
      /\ Len(values[r]) = nproc
      /\ \A k \in Ranks : values[r][k + 1] = arg[k][k + 1]
      /\ \A s \in Ranks : Returned(s) => values[s] = values[r]

C7_Witness ==
  /\ op = "gather" /\ nproc = 3 /\ AllReturned
  /\ arg[0][1] = 0 /\ arg[1][2] = 1 /\ arg[2][3] = 0
  /\ values[2] = <<0, 1, 0>>

\* C8: when every rank calls global_maximum(size), every rank's return
\* value is the largest of the P contributions: one of them, at least each
\* of them (the caller's own included), and the same on all ranks.
C8_GlobalMaximum ==
  op = "global_maximum" =>
    \A r \in Ranks : Returned(r) =>
      /\ \A s \in Ranks : pc[s] # "idle" /\ arg[s][1] <= ret[r][1]
      /\ \E s \in Ranks : arg[s][1] = ret[r][1]
      /\ \A s \in Ranks : Returned(s) => ret[s] = ret[r]

C8_Witness ==
  /\ op = "global_maximum" /\ nproc = 3 /\ AllReturned
  /\ arg[0] = <<0>> /\ arg[1] = <<1>> /\ arg[2] = <<0>>
  /\ ret[0] = <<1>>

\* C9: in a single-process job scatter and gather hand back a copy of the
\* caller's value and global_maximum its argument, without creating a
\* communicator or calling MPI at all: they succeed whether or not MPI was
\* ever initialized.
C9_SingleProcessShortCircuit ==
  (nproc = 1 /\ op \in Collective /\ pc[0] # "idle") =>
    /\ Returned(0)
    /\ mpi_calls[0] = {}
    /\ (op = "scatter" => values[0] = arg[0])
    /\ (op = "gather" => values[0] = arg[0])
    /\ (op = "global_maximum" => ret[0] = arg[0])

\* C10: in a single-process job, constructing LocalMeshData from a mesh
\* ends with the members equal to the data extracted from that mesh
\* (dimensions, global counts, coordinates, vertex indices, connectivity),
\* and no collective is called on the way.
C10_SingleProcessMesh ==
  (nproc = 1 /\ op = "LocalMeshData" /\ pc[0] # "idle") =>
    /\ Returned(0)
    /\ mesh_data[0] = extract_mesh_data(NoRecord, mesh)
    /\ mpi_calls[0] \cap {"MPI_Scatter", "MPI_Allgather", "MPI_Allreduce"} = {}

\* The share of rank r in the data extracted from mesh m: the vertices and
\* the cells whose global indices lie in r's local_range.
LocalShare(m, r) ==
  LET g == extract_mesh_data(NoRecord, m)
      vr == LocalRangeOf(g.num_global_vertices, r)
      cr == LocalRangeOf(g.num_global_cells, r)
  IN  [g EXCEPT !.vertex_coordinates = SubSeq(g.vertex_coordinates, vr[1] + 1, vr[2]),
                !.vertex_indices = SubSeq(g.vertex_indices, vr[1] + 1, vr[2]),
                !.cell_vertices = SubSeq(g.cell_vertices, cr[1] + 1, cr[2])]

\* C11: in a job of P > 1 ranks, constructing LocalMeshData on every rank
\* takes the root and every worker to Done, each rank then holding exactly
\* the vertices and cells whose global indices lie in its local_range, so
\* that the P records together are the extracted mesh, nothing twice and
\* nothing lost.
C11_MeshDistributed ==
  (nproc > 1 /\ op = "LocalMeshData") =>
    \A r \in Ranks : pc[r] # "idle" =>
      /\ Returned(r)
      /\ mesh_data[r] = LocalShare(mesh, r)

\* C12: a send_recv call that returns gives the number of elements that
\* came from its source: the send_size of the call on the source rank that
\* sent to this rank, at least 0 and at most the recv_size of the receive;
\* fewer elements than recv_size are a normal return, and only a message
\* longer than recv_size ends the call in a truncation.
C12_SendRecvCount ==
  op = "send_recv" =>
    \A r \in Ranks :
      /\ Returned(r) =>
           LET source == arg[r][4] IN
           /\ pc[source] # "idle"
           /\ arg[source][2] = r
           /\ ret[r] = <<arg[source][1]>>
           /\ 0 <= ret[r][1]
           /\ ret[r][1] <= arg[r][3]
      /\ err[r] = "MPI_ERR_TRUNCATE" => arg[arg[r][4]][1] > arg[r][3]

C12_Witness ==
  /\ op = "send_recv" /\ nproc = 3
  /\ Returned(1) /\ arg[1] = <<0, 2, 2, 0>> /\ arg[0] = <<1, 1, 2, 2>> /\ ret[1] = <<1>>

\* C13: over any sequence of rank and size queries and of scatter, gather,
\* global_maximum, send_recv, local_range and index_owner calls in a process
\* that starts with MPI uninitialized, MPI is initialized before the process
\* first uses it (duplicating the communicator included), and MPI_Init is
\* called exactly once in the process however many calls follow.
C13_InitBeforeUseOnce ==
  \A r \in Ranks :
    /\ mpi_calls[r] \ {"MPI_Init"} # {} => mpi_initialized[r]
    /\ mpi_inits[r] <= 1
    /\ mpi_initialized[r] <=> mpi_inits[r] = 1

====
